---- MODULE Spec2Model ----
(***************************************************************************)
(* Model of tags/1.4/utilities/parallelretriever.py: the __main__ block    *)
(* and retrieve_package, with the forked retriever processes, the stdio    *)
(* buffer each process holds for retrieval.log and the file behind it.     *)
(*                                                                         *)
(* Strings are sequences of one-character strings, so that startswith,     *)
(* os.path.join, os.path.dirname and the "%s %s %d\n" format are computed  *)
(* on characters.  time.asctime() is the single unit "T".  Destination     *)
(* names are relative paths.  The input files exist and are readable.      *)
(***************************************************************************)
EXTENDS Integers, Sequences, FiniteSets, TLC

\* Largest number of lines of the retrieval order file.
MaxLines == 2
\* Largest value of -n / --number-of-processes.
MaxWorkers == 2
\* Size, in characters, of the stdio buffer of a file opened with file(name, "w")
\* (the block size of the file, 4096 in practice).
BufSize == 9

None == "None"

\* The exit status of a process that has not exited.
Running == -1

\* No transfer is in flight.
NoTransfer == [argv |-> << >>, tool |-> "", url |-> << >>, filename |-> << >>,
               makedirs |-> ""]

(***************************************************************************)
(* Input alphabet                                                          *)
(***************************************************************************)
RSYNC == <<"r", "s", "y", "n", "c">>
U_RSYNC == <<"r", "s", "y", "n", "c", ":", "/", "/", "h">>
U_RSYNCX == <<"r", "s", "y", "n", "c", "x", ":", "/", "/", "h">>
U_HTTP == <<"h", "t", "t", "p", ":", "/", "/", "h">>
F_A == <<"a">>
F_DB == <<"d", "/", "b">>
SIZE == <<"7">>

U_HTTPS == <<"h", "t", "t", "p", "s", ":", "/", "/", "h">>
U_FTP == <<"f", "t", "p", ":", "/", "/", "h">>
U_RSYN == <<"r", "s", "y", "n", ":", "/", "/", "h">>

\* line.strip().split() of the lines a retrieval order file is drawn from:
\* two tokens, three tokens, a blank line, four tokens.
LineSet ==
    { <<U_RSYNC, F_A>>,
      <<U_HTTP, SIZE, F_DB>>,
      << >>,
      <<U_HTTP, SIZE, F_A, F_A>> }

\* The lines the transfer selection is exercised on: one per URL, a line of
\* three tokens and a blank line.
SelectorLineSet ==
    { <<u, F_A>> : u \in {U_RSYNC, U_RSYNCX, U_RSYN, U_HTTP, U_HTTPS, U_FTP} }
        \cup { <<U_FTP, SIZE, F_DB>>, << >> }

\* Largest number of lines of a retrieval order file of SelectorSpec.
MaxSelectorLines == 2

\* The exit codes a transfer ends with.
RetCodes == {0, 1}

SeqsUpTo(S, n) == UNION { [1..m -> S] : m \in 0..n }

\* os.path.join(options.destination_path, options.package_identifier)
package_directory == <<"p">>

(***************************************************************************)
(* Pure helpers                                                            *)
(***************************************************************************)
\* str.startswith
StartsWith(s, prefix) ==
    /\ Len(s) >= Len(prefix)
    /\ SubSeq(s, 1, Len(prefix)) = prefix

\* The scheme of a URL: the characters before the first ":", empty without one.
Scheme(url) ==
    IF \E k \in 1..Len(url) : url[k] = ":"
    THEN LET k == CHOOSE k \in 1..Len(url) :
                    /\ url[k] = ":"
                    /\ \A m \in 1..(k - 1) : url[m] # ":"
         IN SubSeq(url, 1, k - 1)
    ELSE << >>

\* Python's % for a non-zero divisor: the result has the sign of the divisor.
PyMod(a, n) ==
    IF n > 0 THEN a % n
    ELSE LET m == a % (0 - n) IN IF m = 0 THEN 0 ELSE m + n

\* a negative count taken for its absolute value
RangeLenAbs(n) == IF n >= 0 THEN n ELSE 0 - n

\* range(n) has max(n, 0) elements.
RangeLen(n) == IF n > 0 THEN n ELSE 0

\* counter incremented before it is used
bucket_numberSkew(counter, n) == PyMod(counter + 1, n)

\* counter % options.num_processes (line 45)
bucket_number(counter, n) == PyMod(counter, n)

\* The index of a tuple of length len: negative indices count from the end,
\* anything outside -len .. len-1 raises IndexError.
TupleIndexOK(b, len) == (0 - len) <= b /\ b < len
TupleIndex(b, len) == IF b < 0 THEN b + len ELSE b

\* os.path.join(a, b) for a relative b
Join(a, b) == a \o <<"/">> \o b

\* os.path.dirname
Dirname(p) ==
    IF \E k \in 1..Len(p) : p[k] = "/"
    THEN LET k == CHOOSE k \in 1..Len(p) :
                    /\ p[k] = "/"
                    /\ \A m \in (k + 1)..Len(p) : p[m] # "/"
         IN SubSeq(p, 1, k - 1)
    ELSE << >>

\* The directories os.makedirs(d) creates below the package directory.
Ancestors(d) ==
    { SubSeq(d, 1, k) : k \in { m \in 1..Len(d) : m = Len(d) \/ d[m + 1] = "/" } }

\* "%d" of an exit code
Digit(ret) == IF ret = 0 THEN "0" ELSE "1"

\* "%s %s %d\n" % (time.asctime(), filename, ret)  (line 76)
FormatLine(path, ret) == <<"T", " ">> \o path \o <<" ", Digit(ret), "\n">>

\* url.startswith('rsync') (line 70)
UseRsync(url) == StartsWith(url, RSYNC)

\* The transfer spawned for a URL (lines 70-75).
Tool(url) == IF UseRsync(url) THEN "rsync" ELSE "wget"

\* The argument vector of os.spawnlp (lines 71-72, 74-75).
Argv(url, filename) ==
    IF UseRsync(url)
    THEN <<"rsync", "-ar", url, filename>>
    ELSE <<"wget", "-q", "-O", filename, url>>

\* The exit status os.wait() reports for a child that exited with code c.
WaitStatus(c) == c * 256

\* The pid os.fork() returns to the parent for the i-th child: never 0.
Pid(i) == i + 1

(***************************************************************************)
(* stdio                                                                   *)
(***************************************************************************)
Tag(w, s) == [k \in 1..Len(s) |-> [by |-> w, ch |-> s[k]]]

\* A stream: the open file description behind it, the stdio buffer (alloc:
\* whether it is allocated yet, which the first write does), and pend, the
\* text of a write in progress that has not been handed on yet.
ClosedFile == [open |-> FALSE, ofd |-> -1, buf |-> << >>, alloc |-> FALSE,
               pend |-> << >>]

\* a write that loses its text
StdioWriteDrop(f, s) == [buf |-> f.buf, out |-> << >>, pend |-> << >>]

\* fwrite(s) on the fully buffered stream f, up to and including the flush of
\* the buffer.  The room left in the buffer (none before the buffer is
\* allocated) is filled first; when all of s went in, that is all.  Otherwise
\* the buffer is handed to write(2) (out; no call when it is empty) and the
\* rest of s is still to be handed on (pend).
StdioWrite(f, s) ==
    LET room == IF f.alloc THEN BufSize - Len(f.buf) ELSE 0
        count == IF Len(s) <= room THEN Len(s) ELSE room
        filled == f.buf \o SubSeq(s, 1, count)
    IN IF count = Len(s)
       THEN [buf |-> filled, out |-> << >>, pend |-> << >>]
       ELSE [buf |-> << >>, out |-> filled, pend |-> SubSeq(s, count + 1, Len(s))]

\* The rest of that fwrite: the whole blocks of what is left are handed to
\* write(2) in one call of their own (out; no call when there is none) and the
\* remainder is put into the buffer.
StdioBlocks(rest) ==
    LET do_write == Len(rest) - (Len(rest) % BufSize) IN
    [buf |-> SubSeq(rest, do_write + 1, Len(rest)),
     out |-> SubSeq(rest, 1, do_write)]

Workers == 0..(MaxWorkers - 1)

VARIABLES
    options,            \* the parsed command line
    fetch,              \* the retrieval order file: the tokens of each line
    fs,                 \* the file system below the destination path
    ppc,                \* where the original process is
    pstatus,            \* its exit status, Running while it runs
    retrieval_orders,   \* the buckets, 0-indexed
    counter,            \* lines distributed so far
    fi,                 \* the i of the fork loop
    pids,               \* the pids the fork loop collected
    wi,                 \* the i of the wait loop
    outcomes,           \* the (pid, exit_status) pairs os.wait() returned
    plog,               \* logfile in the original process
    wpc,                \* where each child is
    wj,                 \* how many items of its bucket a child has gone through
    wcur,               \* the transfer a child is waiting for
    wmade,              \* how os.makedirs ended for the item a child is about
                        \* to spawn the transfer of
    attempts,           \* the transfers a child has completed
    wlog,               \* logfile in each child
    wstatus,            \* the exit code of each child
    wcode,              \* the exit code a child has begun to end with
    zombies,            \* the children that have exited and are not collected,
                        \* in the order they exited
    nforks,             \* the os.fork() calls made by any process: line 52
                        \* and, inside os.spawnlp, lines 71-75
    logs                \* what write(2) has put behind each open file description

vars == <<options, fetch, fs, ppc, pstatus, retrieval_orders, counter, fi, pids,
          wi, outcomes, plog, wpc, wj, wcur, wmade, attempts, wlog, wstatus, wcode,
          zombies, nforks, logs>>

parentVars == <<ppc, pstatus, retrieval_orders, counter, fi, pids, wi, outcomes, plog>>
childVars == <<wpc, wj, wcur, wmade, attempts, wlog, wstatus, wcode, zombies,
               nforks>>

num_processes == options.num_processes

\* The state when the interpreter starts __main__ on a retrieval order file
\* drawn from files.
InitWith(files) ==
    /\ options \in [num_processes : (-1)..MaxWorkers,
                    file_manifest : {None, "manifest-md5.txt"},
                    retrieval_order : {None, "fetch.txt"}]
    /\ fetch \in files
    /\ fs \in [pkgdir : BOOLEAN, copied : {{}}, dirs : {{}}]
    /\ ppc = "main"
    /\ pstatus = Running
    /\ retrieval_orders = << >>
    /\ counter = 0
    /\ fi = 0
    /\ pids = << >>
    /\ wi = 0
    /\ outcomes = << >>
    /\ plog = ClosedFile
    /\ wpc = [w \in Workers |-> "none"]
    /\ wj = [w \in Workers |-> 0]
    /\ wcur = [w \in Workers |-> NoTransfer]
    /\ wmade = [w \in Workers |-> ""]
    /\ attempts = [w \in Workers |-> << >>]
    /\ wlog = [w \in Workers |-> ClosedFile]
    /\ wstatus = [w \in Workers |-> Running]
    /\ wcode = [w \in Workers |-> Running]
    /\ zombies = << >>
    /\ nforks = 0
    /\ logs = [d \in {} |-> << >>]

Init == InitWith(SeqsUpTo(LineSet, MaxLines))

(***************************************************************************)
(* The original process                                                    *)
(***************************************************************************)
\* only the file manifest is checked
UsageErrorManifest(opts) == opts.file_manifest = None

\* parser.error() is called (lines 99-103)
UsageError(opts) == opts.file_manifest = None \/ opts.retrieval_order = None

\* __main__ with a missing required option: parser.error exits with status 2.
MainUsage ==
    /\ ppc = "main"
    /\ UsageError(options)
    /\ ppc' = "exited"
    /\ pstatus' = 2
    /\ UNCHANGED <<options, fetch, fs, retrieval_orders, counter, fi, pids, wi,
                   outcomes, plog, logs>>
    /\ UNCHANGED childVars

\* __main__ otherwise: retrieve_package(options) is called.
MainRun ==
    /\ ppc = "main"
    /\ ~UsageError(options)
    /\ ppc' = "mkdir"
    /\ UNCHANGED <<options, fetch, fs, pstatus, retrieval_orders, counter, fi, pids,
                   wi, outcomes, plog, logs>>
    /\ UNCHANGED childVars

\* os.mkdir without the os.path.isdir test: OSError when the directory exists
MakePackageDirAlways ==
    /\ ppc = "mkdir"
    /\ IF fs.pkgdir
       THEN ppc' = "exited" /\ pstatus' = 1 /\ fs' = fs
       ELSE ppc' = "copy" /\ pstatus' = pstatus /\ fs' = [fs EXCEPT !.pkgdir = TRUE]
    /\ UNCHANGED <<options, fetch, retrieval_orders, counter, fi, pids,
                   wi, outcomes, plog, logs>>
    /\ UNCHANGED childVars

\* lines 33-34: os.mkdir only if os.path.isdir says the directory is not there
MakePackageDir ==
    /\ ppc = "mkdir"
    /\ fs' = IF fs.pkgdir THEN fs ELSE [fs EXCEPT !.pkgdir = TRUE]
    /\ ppc' = "copy"
    /\ UNCHANGED <<options, fetch, pstatus, retrieval_orders, counter, fi, pids,
                   wi, outcomes, plog, logs>>
    /\ UNCHANGED childVars

\* lines 36-42: the two copies (shutil.copy(None, ...) raises), then the
\* empty buckets and the counter.
CopyFiles ==
    /\ ppc = "copy"
    /\ IF options.file_manifest = None
       THEN /\ ppc' = "exited" /\ pstatus' = 1 /\ fs' = fs
            /\ UNCHANGED retrieval_orders
       ELSE IF options.retrieval_order = None
       THEN /\ ppc' = "exited" /\ pstatus' = 1
            /\ fs' = [fs EXCEPT !.copied = {"manifest"}]
            /\ UNCHANGED retrieval_orders
       ELSE /\ ppc' = "partition" /\ pstatus' = pstatus
            /\ fs' = [fs EXCEPT !.copied = {"manifest", "order"}]
            /\ retrieval_orders' = [b \in 0..(RangeLen(num_processes) - 1) |-> << >>]
    /\ counter' = 0
    /\ UNCHANGED <<options, fetch, fi, pids, wi, outcomes, plog, logs>>
    /\ UNCHANGED childVars

\* One iteration of the loop of lines 43-47 raises: ZeroDivisionError for
\* num_processes = 0, IndexError for a bucket number outside the tuple.
PartitionFails ==
    IF num_processes = 0 THEN TRUE
    ELSE ~TupleIndexOK(bucket_number(counter, num_processes), RangeLen(num_processes))

\* lines 43-47, one line of the file
PartitionStep ==
    /\ ppc = "partition"
    /\ counter < Len(fetch)
    /\ ~PartitionFails
    /\ LET retrieval_item == fetch[counter + 1]
           b == TupleIndex(bucket_number(counter, num_processes), RangeLen(num_processes))
       IN retrieval_orders' =
              [retrieval_orders EXCEPT ![b] = Append(@, retrieval_item)]
    /\ counter' = counter + 1
    /\ UNCHANGED <<options, fetch, fs, ppc, pstatus, fi, pids, wi, outcomes, plog, logs>>
    /\ UNCHANGED childVars

\* lines 43-47, the uncaught exception ends the process with status 1
PartitionCrash ==
    /\ ppc = "partition"
    /\ counter < Len(fetch)
    /\ PartitionFails
    /\ ppc' = "exited"
    /\ pstatus' = 1
    /\ UNCHANGED <<options, fetch, fs, retrieval_orders, counter, fi, pids, wi,
                   outcomes, plog, logs>>
    /\ UNCHANGED childVars

\* lines 49-50: retrieval.log is created empty, nothing is buffered
OpenLog ==
    /\ ppc = "partition"
    /\ counter >= Len(fetch)
    /\ plog' = [open |-> TRUE, ofd |-> 0, buf |-> << >>, alloc |-> FALSE,
                pend |-> << >>]
    /\ logs' = (0 :> << >>)
    /\ pids' = << >>
    /\ fi' = 0
    /\ ppc' = "fork"
    /\ UNCHANGED <<options, fetch, fs, pstatus, retrieval_orders, counter, wi, outcomes>>
    /\ UNCHANGED childVars

\* The open file description behind logfile in child i: fork() shares the
\* parent's.
ChildOfd(i, parent_ofd) == parent_ofd

\* lines 51-54: os.fork().  The child is a copy of the parent, logfile and
\* its buffer included, and starts on its bucket (pid = 0).
Fork ==
    /\ ppc = "fork"
    /\ fi < RangeLen(num_processes)
    /\ pids' = Append(pids, Pid(fi))
    /\ wpc' = [wpc EXCEPT ![fi] = "item"]
    /\ wlog' = [wlog EXCEPT ![fi] = [plog EXCEPT !.ofd = ChildOfd(fi, plog.ofd)]]
    /\ logs' = IF ChildOfd(fi, plog.ofd) \in DOMAIN logs THEN logs
               ELSE logs @@ (ChildOfd(fi, plog.ofd) :> << >>)
    /\ fi' = fi + 1
    /\ nforks' = nforks + 1
    /\ UNCHANGED <<options, fetch, fs, ppc, pstatus, retrieval_orders, counter, wi,
                   outcomes, plog, wj, wcur, wmade, attempts, wstatus, wcode,
                   zombies>>

\* the fork loop is over, the wait loop starts
ForkDone ==
    /\ ppc = "fork"
    /\ fi >= RangeLen(num_processes)
    /\ ppc' = "wait"
    /\ wi' = 0
    /\ UNCHANGED <<options, fetch, fs, pstatus, retrieval_orders, counter, fi, pids,
                   outcomes, plog, logs>>
    /\ UNCHANGED childVars

\* a wait that does not block until a child has exited
ReapableRunning(w) ==
    wpc[w] \in {"item", "made", "running", "writing", "exiting", "zombie"}

\* the first child is never collected
ReapableNotFirst(w) == wpc[w] = "zombie" /\ w # 0

\* only children that ended with exit code 0 are collected
ReapableClean(w) == wpc[w] = "zombie" /\ wstatus[w] = 0

\* os.wait() can return child w
Reapable(w) == wpc[w] = "zombie"

\* lines 79-81: os.wait() returns a terminated child
Wait(w) ==
    /\ ppc = "wait"
    /\ wi < RangeLen(num_processes)
    /\ Reapable(w)
    /\ wpc' = [wpc EXCEPT ![w] = "reaped"]
    /\ outcomes' = Append(outcomes, <<Pid(w), WaitStatus(wstatus[w])>>)
    /\ wi' = wi + 1
    /\ zombies' = SelectSeq(zombies, LAMBDA v : v # w)
    /\ UNCHANGED <<options, fetch, fs, ppc, pstatus, retrieval_orders, counter, fi,
                   pids, plog, wj, wcur, wmade, attempts, wlog, wstatus, wcode, nforks,
                   logs>>

\* an exit status that reports failed transfers
MainExitStatusFailures ==
    IF \E w \in Workers : \E j \in 1..Len(attempts[w]) : attempts[w][j].ret # 0
    THEN 1 ELSE 0

\* The exit status of the original process when retrieve_package returns.
MainExitStatus == 0

\* retrieve_package returns and the interpreter exits, flushing logfile
Return ==
    /\ ppc = "wait"
    /\ wi >= RangeLen(num_processes)
    /\ ppc' = "exited"
    /\ pstatus' = MainExitStatus
    /\ logs' = [logs EXCEPT ![plog.ofd] = @ \o Tag(-1, plog.buf)]
    /\ plog' = ClosedFile
    /\ UNCHANGED <<options, fetch, fs, retrieval_orders, counter, fi, pids, wi, outcomes>>
    /\ UNCHANGED childVars

(***************************************************************************)
(* The children                                                            *)
(***************************************************************************)
\* every child takes the first bucket
bucketFirst(w) == retrieval_orders[0]

\* The bucket of child i: retrieval_orders[i], with the i the fork loop had
\* when the child was forked.
bucket(w) == retrieval_orders[w]

\* lines 60-63 raise ValueError
UnpackFails(items) == Len(items) # 2 /\ Len(items) # 3

\* url, filename of lines 60-63
UrlOf(items) == items[1]
FilenameOf(items) == IF Len(items) = 2 THEN items[2] ELSE items[3]

\* an exception handler that ends the child like a normal return
CrashCodeZero == MainExitStatus

\* The exit code of a process that ends on an uncaught exception.
CrashCode == 1

\* The interpreter of child w ends with code: the stream behind logfile is
\* flushed and closed, which is one write(2) when its buffer holds text, and
\* then the process exits, which is a step of its own after such a write
\* (ExitGroup) and this same step when there is nothing to write.
ExitChild(w, code) ==
    /\ wlog' = [wlog EXCEPT ![w] = ClosedFile]
    /\ wcode' = [wcode EXCEPT ![w] = code]
    /\ IF wlog[w].buf = << >>
       THEN /\ wpc' = [wpc EXCEPT ![w] = "zombie"]
            /\ wstatus' = [wstatus EXCEPT ![w] = code]
            /\ zombies' = Append(zombies, w)
            /\ logs' = logs
       ELSE /\ wpc' = [wpc EXCEPT ![w] = "exiting"]
            /\ logs' = [logs EXCEPT ![wlog[w].ofd] = @ \o Tag(w, wlog[w].buf)]
            /\ UNCHANGED <<wstatus, zombies>>

\* The exit of a child that has flushed its log: from now on os.wait() in the
\* parent can return it.
ExitGroup(w) ==
    /\ wpc[w] = "exiting"
    /\ wpc' = [wpc EXCEPT ![w] = "zombie"]
    /\ wstatus' = [wstatus EXCEPT ![w] = wcode[w]]
    /\ zombies' = Append(zombies, w)
    /\ UNCHANGED <<options, fetch, fs, wj, wcur, wmade, attempts, wlog, wcode, nforks,
                   logs>>
    /\ UNCHANGED parentVars

\* The ways os.makedirs(d) can end: "EEXIST" when d is there already, else
\* done ("ok") or refused ("EACCES").
MakedirsResults(d) ==
    IF d = package_directory \/ d \in fs.dirs THEN {"EEXIST"} ELSE {"ok", "EACCES"}

\* only "the directories are already there" is let through
SwallowedExists(err) == err = "EEXIST"

\* The OSError of os.makedirs is swallowed (lines 65-69: except OSError: pass).
Swallowed(err) == TRUE

\* lines 58-69 for the next item: unpack, join and os.makedirs, every
\* OSError of which is swallowed
StartItem(w) ==
    /\ wpc[w] = "item"
    /\ wj[w] < Len(bucket(w))
    /\ LET items == bucket(w)[wj[w] + 1] IN
       /\ ~UnpackFails(items)
       /\ LET d == Dirname(Join(package_directory, FilenameOf(items)))
          IN \E res \in MakedirsResults(d) :
                /\ fs' = IF res = "ok"
                         THEN [fs EXCEPT !.dirs = @ \cup (Ancestors(d) \ {package_directory})]
                         ELSE fs
                /\ IF res = "ok" \/ Swallowed(res)
                   THEN /\ wmade' = [wmade EXCEPT ![w] = res]
                        /\ wpc' = [wpc EXCEPT ![w] = "made"]
                        /\ UNCHANGED <<wlog, wstatus, wcode, zombies, logs>>
                   ELSE /\ ExitChild(w, CrashCode)
                        /\ UNCHANGED wmade
    /\ UNCHANGED <<options, fetch, wj, wcur, attempts, nforks>>
    /\ UNCHANGED parentVars

\* lines 70-75: os.spawnlp forks a process for the transfer command of the
\* item and waits for it
SpawnTransfer(w) ==
    /\ wpc[w] = "made"
    /\ LET items == bucket(w)[wj[w] + 1]
           filename == Join(package_directory, FilenameOf(items))
       IN wcur' = [wcur EXCEPT ![w] =
                      [argv |-> Argv(UrlOf(items), filename),
                       tool |-> Tool(UrlOf(items)),
                       url |-> UrlOf(items),
                       filename |-> filename,
                       makedirs |-> wmade[w]]]
    /\ wmade' = [wmade EXCEPT ![w] = ""]
    /\ wpc' = [wpc EXCEPT ![w] = "running"]
    /\ nforks' = nforks + 1
    /\ UNCHANGED <<options, fetch, fs, wj, attempts, wlog, wstatus, wcode, zombies, logs>>
    /\ UNCHANGED parentVars

\* lines 60-63 with a tuple that is neither two nor three tokens: the
\* uncaught ValueError ends the child with code 1
WorkerCrash(w) ==
    /\ wpc[w] = "item"
    /\ wj[w] < Len(bucket(w))
    /\ UnpackFails(bucket(w)[wj[w] + 1])
    /\ ExitChild(w, CrashCode)
    /\ UNCHANGED <<options, fetch, fs, wj, wcur, wmade, attempts, nforks>>
    /\ UNCHANGED parentVars

\* the loop is left at the first transfer that fails
NextItemStop(j, ret) == IF ret = 0 THEN j + 1 ELSE j + MaxLines + 1

\* The position in the bucket after an item has been logged (line 58).
NextItem(j, ret) == j + 1

\* lines 70-76: the transfer exits with ret and logfile.write is called with
\* the line.  Up to two write(2) calls come out of it, the flush of the buffer
\* and the whole blocks of the rest; when both are made, the first is made here
\* and the second is a step of its own (WriteBlocks).
FinishItem(w, ret) ==
    /\ wpc[w] = "running"
    /\ attempts' = [attempts EXCEPT ![w] =
                        Append(@, wcur[w] @@ [ret |-> ret, pos |-> wj[w]])]
    /\ LET r == StdioWrite(wlog[w], FormatLine(wcur[w].filename, ret))
           t == StdioBlocks(r.pend)
       IN IF r.out # << >> /\ t.out # << >>
          THEN /\ wlog' = [wlog EXCEPT ![w].buf = << >>, ![w].alloc = TRUE,
                                       ![w].pend = r.pend]
               /\ logs' = [logs EXCEPT ![wlog[w].ofd] = @ \o Tag(w, r.out)]
               /\ wpc' = [wpc EXCEPT ![w] = "writing"]
          ELSE /\ wlog' = [wlog EXCEPT ![w].buf = r.buf \o t.buf, ![w].alloc = TRUE]
               /\ logs' = [logs EXCEPT ![wlog[w].ofd] = @ \o Tag(w, r.out \o t.out)]
               /\ wpc' = [wpc EXCEPT ![w] = "item"]
    /\ wcur' = [wcur EXCEPT ![w] = NoTransfer]
    /\ wj' = [wj EXCEPT ![w] = NextItem(wj[w], ret)]
    /\ UNCHANGED <<options, fetch, fs, wmade, wstatus, wcode, zombies, nforks>>
    /\ UNCHANGED parentVars

\* line 76, the second write(2) of a logfile.write: the whole blocks go to the
\* file, the remainder into the buffer, and the loop of line 58 goes on.
WriteBlocks(w) ==
    /\ wpc[w] = "writing"
    /\ LET t == StdioBlocks(wlog[w].pend) IN
       /\ wlog' = [wlog EXCEPT ![w].buf = t.buf, ![w].pend = << >>]
       /\ logs' = [logs EXCEPT ![wlog[w].ofd] = @ \o Tag(w, t.out)]
    /\ wpc' = [wpc EXCEPT ![w] = "item"]
    /\ UNCHANGED <<options, fetch, fs, wj, wcur, wmade, attempts, wstatus, wcode, zombies,
                   nforks>>
    /\ UNCHANGED parentVars

\* without sys.exit the child goes on with the rest of the fork loop
ForksAfterBucketLoop(w) == RangeLen(num_processes) - w - 1

\* The os.fork() calls child w makes once its bucket is done: sys.exit(0)
\* (line 77) ends it inside the loop body of line 51.
ForksAfterBucket(w) == 0

\* line 77: sys.exit(0)
WorkerExit(w) ==
    /\ wpc[w] = "item"
    /\ wj[w] >= Len(bucket(w))
    /\ ExitChild(w, 0)
    /\ nforks' = nforks + ForksAfterBucket(w)
    /\ UNCHANGED <<options, fetch, fs, wj, wcur, wmade, attempts>>
    /\ UNCHANGED parentVars

Next ==
    \/ MainUsage
    \/ MainRun
    \/ MakePackageDir
    \/ CopyFiles
    \/ PartitionStep
    \/ PartitionCrash
    \/ OpenLog
    \/ Fork
    \/ ForkDone
    \/ \E w \in Workers : Wait(w)
    \/ Return
    \/ \E w \in Workers : StartItem(w)
    \/ \E w \in Workers : SpawnTransfer(w)
    \/ \E w \in Workers : WorkerCrash(w)
    \/ \E w \in Workers, ret \in RetCodes : FinishItem(w, ret)
    \/ \E w \in Workers : WriteBlocks(w)
    \/ \E w \in Workers : WorkerExit(w)
    \/ \E w \in Workers : ExitGroup(w)

Spec == Init /\ [][Next]_vars

\* Every runnable process is eventually scheduled and every transfer exits.
FairSpec == Spec /\ WF_vars(Next)

\* The program on one-line retrieval orders over a wider set of URLs.
SelectorInit == InitWith(SeqsUpTo(SelectorLineSet, MaxSelectorLines))
SelectorSpec == SelectorInit /\ [][Next]_vars

(***************************************************************************)
(* Properties                                                              *)
(***************************************************************************)
\* A line with two or three tokens.
WellFormedLine(items) == Len(items) \in {2, 3}
WellFormed(lines) == \A k \in 1..Len(lines) : WellFormedLine(lines[k])

\* The child has been forked; it has exited.
Launched(w) == wpc[w] # "none"
Terminated(w) == wstatus[w] # Running

\* The original process is past the barrier of lines 79-81.
BarrierPassed == ppc = "exited" /\ pstatus = 0

\* The positions of the first c lines that i mod m sends to bucket b.
PositionsOf(b, c, m) == { i \in 0..(c - 1) : i % m = b }

\* C1: for num_processes >= 1 there are exactly num_processes buckets, the
\* line at 0-indexed position i is in bucket i mod num_processes at place
\* i div num_processes and nowhere else, and two buckets differ in size by
\* at most 1; this holds of the lines distributed so far at every step.
C1_RoundRobin ==
    (num_processes >= 1 /\ (ppc \in {"partition", "fork", "wait"} \/ BarrierPassed))
        => /\ DOMAIN retrieval_orders = 0..(num_processes - 1)
           /\ \A b \in DOMAIN retrieval_orders :
                 /\ Len(retrieval_orders[b])
                        = Cardinality(PositionsOf(b, counter, num_processes))
                 /\ \A j \in 1..Len(retrieval_orders[b]) :
                        retrieval_orders[b][j]
                            = fetch[(j - 1) * num_processes + b + 1]
           /\ \A a, b \in DOMAIN retrieval_orders :
                 Len(retrieval_orders[a]) - Len(retrieval_orders[b]) \in {-1, 0, 1}

\* Two different lines have been distributed over two buckets.
C1_Witness ==
    /\ ppc = "fork"
    /\ num_processes = 2
    /\ counter = 2
    /\ fetch[1] # fetch[2]
    /\ retrieval_orders[0] = <<fetch[1]>>
    /\ retrieval_orders[1] = <<fetch[2]>>

\* The number of line ends child w has put behind its open file description.
NewlinesBy(w) ==
    LET log == logs[0] IN
    Cardinality({ k \in 1..Len(log) : log[k].by = w /\ log[k].ch = "\n" })

\* C2: a child that has exited and whose bucket holds m well-formed items has
\* attempted the m items, each once and in order, has written m lines to the
\* log and has exit code 0, whatever the exit codes of the transfers.
C2_WorkerLogsAll ==
    \A w \in Workers :
        (Terminated(w) /\ WellFormed(retrieval_orders[w]))
            => /\ Len(attempts[w]) = Len(retrieval_orders[w])
               /\ \A j \in 1..Len(attempts[w]) : attempts[w][j].pos = j - 1
               /\ NewlinesBy(w) = Len(retrieval_orders[w])
               /\ wstatus[w] = 0

\* A child has exited with code 0 after two transfers that both failed.
C2_Witness ==
    \E w \in Workers :
        /\ Terminated(w)
        /\ wstatus[w] = 0
        /\ Len(retrieval_orders[w]) = 2
        /\ Len(attempts[w]) = 2
        /\ \A j \in 1..2 : attempts[w][j].ret = 1
        /\ NewlinesBy(w) = 2

\* C3: for num_processes >= 1, once the fork loop is over exactly the children
\* 0 .. num_processes-1 exist, one per bucket, and child w works on the items
\* of bucket w; every outcome collected is that of a child that has exited,
\* no child is collected twice, and past the barrier every child has exited
\* and exactly num_processes outcomes, one per child, have been collected.
C3_Barrier ==
    num_processes >= 1
        => /\ (ppc = "wait" \/ BarrierPassed)
               => /\ \A w \in Workers : Launched(w) <=> w < num_processes
                  /\ pids = [k \in 1..num_processes |-> Pid(k - 1)]
           /\ \A w \in Workers : \A j \in 1..Len(attempts[w]) :
                 /\ w < num_processes
                 /\ j <= Len(retrieval_orders[w])
                 /\ attempts[w][j].url = retrieval_orders[w][j][1]
           /\ \A k \in 1..Len(outcomes) :
                 /\ \E w \in Workers :
                       /\ outcomes[k][1] = Pid(w)
                       /\ Launched(w)
                       /\ Terminated(w)
                 /\ \A m \in 1..Len(outcomes) :
                       outcomes[m][1] = outcomes[k][1] => m = k
           /\ BarrierPassed
               => /\ \A w \in Workers : w < num_processes => Terminated(w)
                  /\ Len(outcomes) = num_processes
                  /\ { outcomes[k][1] : k \in 1..Len(outcomes) }
                         = { Pid(w) : w \in 0..(num_processes - 1) }

\* Past the barrier with two children and one line: the second bucket is empty.
C3_Witness ==
    /\ BarrierPassed
    /\ num_processes = 2
    /\ Len(fetch) = 1
    /\ Len(outcomes) = 2
    /\ retrieval_orders[1] = << >>
    /\ Len(attempts[0]) = 1

\* The run is over: the original process and every child have exited.
RunFinished ==
    /\ ppc = "exited"
    /\ \A w \in Workers : Launched(w) => Terminated(w)

\* C4: under fair scheduling, with every transfer exiting, the run finishes
\* with every launched child exited, and while the original process waits
\* there is always a child that it has not collected yet.
C4_Terminates ==
    /\ <>RunFinished
    /\ [](ppc = "wait" /\ wi < RangeLen(num_processes)
            => \E w \in Workers :
                  wpc[w] \in {"item", "made", "running", "writing", "exiting",
                             "zombie"})

\* A run of two children and two transfers is over, past the barrier.
C4_Witness ==
    /\ RunFinished
    /\ BarrierPassed
    /\ num_processes = 2
    /\ Len(attempts[0]) = 1
    /\ Len(attempts[1]) = 1
    /\ Len(outcomes) = 2

\* C5 (as claimed): a transfer is the rsync mirror transfer exactly when the
\* scheme of its URL is rsync.
C5_SchemeRouting ==
    \A w \in Workers :
        /\ \A j \in 1..Len(attempts[w]) :
              attempts[w][j].argv[1] = "rsync" <=> Scheme(attempts[w][j].url) = RSYNC
        /\ wpc[w] = "running"
              => (wcur[w].argv[1] = "rsync" <=> Scheme(wcur[w].url) = RSYNC)

\* C6 (as claimed): with a line of neither two nor three tokens in the
\* retrieval order no child is launched and no transfer attempted.
C6_MalformedAbortsRun ==
    ~WellFormed(fetch)
        => \A w \in Workers :
              /\ ~Launched(w)
              /\ attempts[w] = << >>

\* A required path is missing.
RequiredMissing ==
    options.file_manifest = None \/ options.retrieval_order = None

\* C7: with the file manifest or the retrieval order missing the run ends
\* with a non-zero status before any work: the file system is left as it
\* was (no package directory made, no file copied), retrieval.log is not
\* opened and no child is launched.
C7_UsageErrorBeforeWork ==
    /\ [](RequiredMissing
            => /\ ppc \in {"main", "exited"}
               /\ ppc = "exited" => pstatus \notin {Running, 0}
               /\ fs.copied = {}
               /\ ~plog.open
               /\ DOMAIN logs = {}
               /\ \A w \in Workers : ~Launched(w))
    /\ [][RequiredMissing => fs' = fs]_vars

\* The run has ended on a missing retrieval order, no package directory there.
C7_Witness ==
    /\ options.file_manifest # None
    /\ options.retrieval_order = None
    /\ ppc = "exited"
    /\ pstatus = 2
    /\ ~fs.pkgdir

\* C8 (as claimed): with both paths given and a well-formed retrieval order the
\* original process exits with status 0, past its barrier.
C8_ExitZeroAnyWorkers ==
    (~RequiredMissing /\ WellFormed(fetch) /\ ppc = "exited")
        => /\ pstatus = 0
           /\ wi = RangeLen(num_processes)

\* C8 (amended): with both paths given, a well-formed retrieval order and
\* num_processes >= 1 the original process exits with status 0, past its
\* barrier, whatever the exit codes of the transfers.
C8_ExitZero ==
    (~RequiredMissing /\ WellFormed(fetch) /\ num_processes >= 1 /\ ppc = "exited")
        => /\ pstatus = 0
           /\ wi = num_processes
           /\ Len(outcomes) = num_processes

\* The original process has exited with 0 after two transfers that both failed.
C8_Witness ==
    /\ ppc = "exited"
    /\ pstatus = 0
    /\ Len(fetch) = 2
    /\ WellFormed(fetch)
    /\ \A w \in Workers : \A j \in 1..Len(attempts[w]) : attempts[w][j].ret = 1
    /\ \E w \in Workers : Len(attempts[w]) = 2

\* The characters of a log and the lines they make.
Chars(log) == [k \in 1..Len(log) |-> log[k].ch]
LineEnds(text) == { k \in 1..Len(text) : text[k] = "\n" }
LineStart(text, e) ==
    LET before == { k \in LineEnds(text) : k < e } IN
    IF before = {} THEN 1
    ELSE 1 + CHOOSE k \in before : \A m \in before : m <= k
LineAt(text, e) == SubSeq(text, LineStart(text, e), e)

\* The transfers attempted, and the line each one logs.
Attempted == { <<w, j>> \in Workers \X (1..MaxLines) : j <= Len(attempts[w]) }
LoggedLine(a) == FormatLine(attempts[a[1]][a[2]].filename, attempts[a[1]][a[2]].ret)

\* C9 (as claimed): past the barrier on a well-formed retrieval order of k
\* items retrieval.log holds exactly k lines, the lines of the k attempts
\* with their path and exit code, none lost, duplicated or damaged.
C9_LogLines ==
    (BarrierPassed /\ WellFormed(fetch))
        => LET text == Chars(logs[0]) IN
           /\ Cardinality(LineEnds(text)) = Len(fetch)
           /\ text # << >> => text[Len(text)] = "\n"
           /\ \A e \in LineEnds(text) :
                 Cardinality({ d \in LineEnds(text) : LineAt(text, d) = LineAt(text, e) })
                     = Cardinality({ a \in Attempted : LoggedLine(a) = LineAt(text, e) })
           /\ \A a \in Attempted :
                 \E e \in LineEnds(text) : LineAt(text, e) = LoggedLine(a)

\* C10: no two children have the same log stream and no log
\* holds the output of more than one child.
C10_OwnStream ==
    /\ \A v, w \in Workers :
          (v # w /\ wlog[v].open /\ wlog[w].open) => wlog[v].ofd # wlog[w].ofd
    /\ \A d \in DOMAIN logs :
          \A k, m \in 1..Len(logs[d]) : logs[d][k].by = logs[d][m].by

\* What child w has put behind open file description d, in order.
RECURSIVE WrittenBy(_, _)
WrittenBy(w, log) ==
    IF log = << >> THEN << >>
    ELSE IF Head(log).by = w THEN <<Head(log).ch>> \o WrittenBy(w, Tail(log))
    ELSE WrittenBy(w, Tail(log))

\* The lines child w has passed to logfile.write, one after the other.
RECURSIVE LinesOf(_, _)
LinesOf(w, k) ==
    IF k = 0 THEN << >>
    ELSE LinesOf(w, k - 1) \o LoggedLine(<<w, k>>)

\* The child a collected outcome belongs to.
ReportedWorker(k) == outcomes[k][1] - 1

\* C11: outcomes are reported in termination order: each wait of the parent
\* reports the child that has exited first among those not yet collected, so a
\* child that exited before another one is reported before it.
C11_TerminationOrder ==
    [][outcomes' # outcomes
          => /\ zombies # << >>
             /\ outcomes'[Len(outcomes')][1] - 1 = Head(zombies)]_vars

\* C11 (amended): a child is reported only once it has exited, each child at
\* most once, and the children that have exited and wait to be collected are
\* exactly the ones not reported yet; among these any one may be reported
\* next, whatever the order in which they exited or were launched.
C11_ReportedAfterExit ==
    /\ \A k \in 1..Len(outcomes) :
          /\ ReportedWorker(k) \in Workers
          /\ Terminated(ReportedWorker(k))
          /\ wpc[ReportedWorker(k)] = "reaped"
          /\ \A m \in 1..Len(outcomes) : ReportedWorker(m) = ReportedWorker(k) => m = k
    /\ \A w \in Workers :
          (\E k \in 1..Len(zombies) : zombies[k] = w)
             <=> (Terminated(w) /\ \A k \in 1..Len(outcomes) : ReportedWorker(k) # w)

\* Child 0 exited before child 1 while neither had been collected, and child 1
\* is reported first.
C11_Witness ==
    /\ zombies = <<0>>
    /\ Len(outcomes) = 1
    /\ ReportedWorker(1) = 1

\* A child that ended before it had worked through its bucket: it met an item
\* it could not unpack and ended on the exception.
Crashed(w) == Terminated(w) /\ Len(attempts[w]) < Len(retrieval_orders[w])

\* C12: a child that ended abnormally on something other than a failed
\* transfer is reported with a status different from 0, and status 0 is
\* reported for the children that worked through their bucket and for no other.
C12_CrashReportedNonZero ==
    \A k \in 1..Len(outcomes) :
        /\ Crashed(ReportedWorker(k)) => outcomes[k][2] # 0
        /\ ~Crashed(ReportedWorker(k)) => outcomes[k][2] = 0

\* A crashed child has been reported with status 256 and a child that
\* completed (one failed transfer included) with status 0.
C12_Witness ==
    \E a, b \in 1..Len(outcomes) :
        /\ Crashed(ReportedWorker(a)) /\ outcomes[a][2] = 256
        /\ ~Crashed(ReportedWorker(b)) /\ outcomes[b][2] = 0
        /\ \E j \in 1..Len(attempts[ReportedWorker(b)]) :
              attempts[ReportedWorker(b)][j].ret # 0

\* The children that have a transfer in flight.
InFlight == { w \in Workers : wpc[w] = "running" }

\* C13: a child works through its bucket one item after the other: the
\* transfer in flight is the one for the item that follows the items already
\* attempted, and when it was spawned, and already when the directory for it
\* was made, every earlier transfer had exited and its log line had been
\* passed to the log; a child has at most one transfer in flight and there
\* are at most num_processes in flight overall.
C13_Sequential ==
    /\ \A w \in Workers :
          /\ wj[w] = Len(attempts[w])
          /\ \A j \in 1..Len(attempts[w]) : attempts[w][j].pos = j - 1
          /\ wpc[w] \in {"made", "running"}
                => /\ wj[w] < Len(retrieval_orders[w])
                   /\ WrittenBy(w, logs[0]) \o wlog[w].buf = LinesOf(w, wj[w])
                   /\ wlog[w].pend = << >>
          /\ w \in InFlight
                => /\ wcur[w] # NoTransfer
                   /\ wcur[w].url = retrieval_orders[w][wj[w] + 1][1]
          /\ w \notin InFlight => wcur[w] = NoTransfer
    /\ Cardinality(InFlight) <= RangeLen(num_processes)

\* The only child has its second transfer in flight, the first one is logged.
C13_Witness ==
    /\ 0 \in InFlight
    /\ wj[0] = 1
    /\ Len(attempts[0]) = 1
    /\ WrittenBy(0, logs[0]) \o wlog[0].buf = LinesOf(0, 1)

\* The line of the retrieval order that item j of child w's bucket stands for.
LineOf(w, j) == (j - 1) * num_processes + w + 1

\* The attempts made for line i of the retrieval order.
AttemptsOf(i) == { a \in Attempted : LineOf(a[1], a[2]) = i }

\* C14 (as claimed): once a run given both paths has ended, every line of a
\* well-formed retrieval order has exactly one attempt.
C14_EveryItemOnce ==
    (~RequiredMissing /\ ppc = "exited" /\ WellFormed(fetch))
        => \A i \in 1..Len(fetch) : Cardinality(AttemptsOf(i)) = 1

\* C14 (amended): with num_processes >= 1 every item of a well-formed
\* retrieval order is attempted exactly once over the whole run, by the child
\* whose number is the line's position modulo num_processes: at any time an
\* attempt of child w is for a line of its own bucket, each line at most once
\* and in order, and once the run has ended every line has its one attempt.
\* Only forked children attempt transfers.
C14_ExactlyOnce ==
    /\ \A w \in Workers :
          /\ (attempts[w] # << >> \/ wcur[w] # NoTransfer)
                => (Launched(w) /\ w < num_processes)
          /\ \A j \in 1..Len(attempts[w]) :
                /\ num_processes >= 1 /\ w < num_processes
                /\ LineOf(w, j) <= Len(fetch)
                /\ (LineOf(w, j) - 1) % num_processes = w
                /\ attempts[w][j].pos = j - 1
                /\ WellFormedLine(fetch[LineOf(w, j)])
                /\ attempts[w][j].url = UrlOf(fetch[LineOf(w, j)])
                /\ attempts[w][j].filename
                      = Join(package_directory, FilenameOf(fetch[LineOf(w, j)]))
    /\ (~RequiredMissing /\ ppc = "exited" /\ WellFormed(fetch)
           /\ num_processes >= 1)
          => /\ \A i \in 1..Len(fetch) : Cardinality(AttemptsOf(i)) = 1
             /\ \A w \in Workers :
                   Len(attempts[w])
                      = Cardinality({ i \in 1..Len(fetch) :
                                         (i - 1) % num_processes = w })

\* A run over two different well-formed lines is complete: child 0 has
\* attempted the first and child 1 the second, once each.
C14_Witness ==
    /\ BarrierPassed
    /\ num_processes = 2
    /\ Len(fetch) = 2 /\ WellFormed(fetch) /\ fetch[1] # fetch[2]
    /\ Len(attempts[0]) = 1 /\ attempts[0][1].url = fetch[1][1]
    /\ Len(attempts[1]) = 1 /\ attempts[1][1].url = fetch[2][1]

\* The package directory holds the copies of both input files.
Prepared == fs.pkgdir /\ fs.copied = {"manifest", "order"}

\* C15: no child is forked and no transfer starts before the package
\* directory exists and both input files are copied into it; the step that
\* makes the package directory succeeds whether or not the directory was
\* there, so a run given both paths never ends before the files are copied.
C15_PreparedBeforeLaunch ==
    /\ \A w \in Workers :
          (Launched(w) \/ wcur[w] # NoTransfer \/ attempts[w] # << >>) => Prepared
    /\ (~RequiredMissing /\ ppc \notin {"main", "mkdir"}) => fs.pkgdir
    /\ (~RequiredMissing /\ ppc \notin {"main", "mkdir", "copy"}) => Prepared

\* Both children have a transfer in flight in the prepared package directory.
C15_Witness ==
    /\ Prepared
    /\ InFlight = {0, 1}

\* The directory os.makedirs is called on for item j of child w's bucket.
ItemDir(w, j) ==
    Dirname(Join(package_directory, FilenameOf(retrieval_orders[w][j])))

\* C16: a failed os.makedirs for an item, whatever the reason, never ends the
\* child: after os.makedirs, whatever it returned or raised and whatever its
\* siblings did in between, the child is in front of the spawn of the
\* transfer for that very item and can take it; the transfer in flight and
\* every attempt are for the item os.makedirs was called for and carry its
\* outcome; the exit code is logged and the child goes on, so a child ends
\* with a code other than 0 only in front of an item it cannot unpack, a
\* child that has ended has one line end in the log for each of its attempts,
\* and a child with a well-formed bucket ends having attempted all of it.
C16_MakedirsFailureIgnored ==
    \A w \in Workers :
        /\ (wmade[w] # "") <=> (wpc[w] = "made")
        /\ wpc[w] = "made"
              => /\ wmade[w] \in {"ok", "EEXIST", "EACCES"}
                 /\ ~Terminated(w)
                 /\ wj[w] < Len(retrieval_orders[w])
                 /\ WellFormedLine(retrieval_orders[w][wj[w] + 1])
                 /\ wmade[w] = "ok" => ItemDir(w, wj[w] + 1) \in fs.dirs
                 /\ wmade[w] = "EEXIST"
                       => \/ ItemDir(w, wj[w] + 1) = package_directory
                          \/ ItemDir(w, wj[w] + 1) \in fs.dirs
                 /\ ENABLED SpawnTransfer(w)
        /\ w \in InFlight
              => /\ wcur[w].makedirs \in {"ok", "EEXIST", "EACCES"}
                 /\ wcur[w].filename
                       = Join(package_directory,
                              FilenameOf(retrieval_orders[w][wj[w] + 1]))
        /\ \A j \in 1..Len(attempts[w]) :
              /\ attempts[w][j].makedirs \in {"ok", "EEXIST", "EACCES"}
              /\ attempts[w][j].ret \in RetCodes
              /\ attempts[w][j].filename
                    = Join(package_directory, FilenameOf(retrieval_orders[w][j]))
              /\ attempts[w][j].makedirs = "ok" => ItemDir(w, j) \in fs.dirs
        /\ Terminated(w) => NewlinesBy(w) = Len(attempts[w])
        /\ (Terminated(w) /\ wstatus[w] # 0)
              => /\ Len(attempts[w]) < Len(retrieval_orders[w])
                 /\ ~WellFormedLine(retrieval_orders[w][Len(attempts[w]) + 1])
        /\ (Terminated(w) /\ WellFormed(retrieval_orders[w]))
              => /\ wstatus[w] = 0
                 /\ Len(attempts[w]) = Len(retrieval_orders[w])

\* Child 0 has made the directory of its item and has not yet spawned the
\* transfer; in between its sibling found the directory there, spawned its
\* transfer all the same, logged it and ended with exit code 0.
C16_Witness ==
    /\ wpc[0] = "made" /\ wmade[0] = "ok"
    /\ Terminated(1) /\ wstatus[1] = 0
    /\ Len(attempts[1]) = 1
    /\ attempts[1][1].makedirs = "EEXIST"
    /\ ItemDir(1, 1) = ItemDir(0, 1)
    /\ ItemDir(1, 1) # package_directory
    /\ NewlinesBy(1) = 1

\* A child has ended normally after two attempts: for the first os.makedirs
\* was refused, for the second the directory was there already.
C16_RefusedThenExists ==
    \E w \in Workers :
        /\ Terminated(w) /\ wstatus[w] = 0
        /\ Len(attempts[w]) = 2
        /\ attempts[w][1].makedirs = "EACCES"
        /\ attempts[w][2].makedirs = "EEXIST"

\* The lines read so far that hold at least one token.
NonBlank == SelectSeq(SubSeq(fetch, 1, counter), LAMBDA l : l # << >>)

\* C17: only non-empty lines become items: once the retrieval order is
\* partitioned no bucket holds an item made from an empty line, and bucket b
\* holds, in order, the non-empty lines whose rank among the non-empty lines
\* is b modulo num_processes, as if the empty lines were not there.
C17_BlankLinesIgnored ==
    (ppc \in {"fork", "wait"} /\ num_processes >= 1)
       => \A b \in 0..(num_processes - 1) :
             /\ \A k \in 1..Len(retrieval_orders[b]) : retrieval_orders[b][k] # << >>
             /\ Len(retrieval_orders[b])
                   = Cardinality({ r \in 1..Len(NonBlank) :
                                      (r - 1) % num_processes = b })
             /\ \A k \in 1..Len(retrieval_orders[b]) :
                   (k - 1) * num_processes + b + 1 <= Len(NonBlank)
                      => retrieval_orders[b][k]
                            = NonBlank[(k - 1) * num_processes + b + 1]

\* The transfers children 0..k have started so far.
RECURSIVE Started(_)
Started(k) ==
    IF k < 0 THEN 0
    ELSE Started(k - 1) + Len(attempts[k]) + (IF wpc[k] = "running" THEN 1 ELSE 0)

\* C18: a child never goes on into the code of the parent: once it has ended,
\* normally or on an exception, it does nothing more; the children, the
\* processes made by the os.fork() of the fork loop (line 52), are exactly
\* num_processes once the original process waits (none for
\* num_processes <= 0) and never more; every other fork is the one inside
\* os.spawnlp by which a child starts the transfer of one item; and every
\* outcome of a child is collected by a wait of the original process.
C18_ChildNeverSchedules ==
    /\ nforks = fi + Started(MaxWorkers - 1)
    /\ fi = Len(pids)
    /\ fi = Cardinality({ w \in Workers : Launched(w) })
    /\ fi <= RangeLen(num_processes)
    /\ (ppc = "wait" \/ BarrierPassed) => fi = RangeLen(num_processes)
    /\ Len(outcomes) = wi
    /\ \A w \in Workers :
          Terminated(w)
             => /\ wpc[w] \in {"zombie", "reaped"}
                /\ wcur[w] = NoTransfer
                /\ wmade[w] = ""
                /\ ~wlog[w].open

\* The run is complete after three forks, two of the parent and one for a
\* transfer: child 0 ended normally after an attempt, child 1 on an exception.
C18_Witness ==
    /\ BarrierPassed
    /\ fi = 2
    /\ nforks = 3
    /\ wstatus[0] = 0 /\ Len(attempts[0]) = 1
    /\ wstatus[1] = 1

\* Some child has ended on an item it could not unpack.
SomeCrashed == \E w \in Workers : Crashed(w)

\* The children the fork loop makes.
Children == { w \in Workers : w < num_processes }

\* C19: the children fail apart from each other: whatever happens to the
\* others, a child whose own bucket is well-formed ends with exit code 0
\* after attempting all of it; a child that has crashed can be collected like
\* any other, so the parent in its wait loop is never held up by it: with an
\* ended child not yet collected os.wait() can return, and with every child
\* ended the parent can go on until it is past its barrier; and past the
\* barrier after a crash num_processes outcomes are collected and every child
\* with a well-formed bucket has all its lines in the log.  That every child
\* ends is not part of this: it needs every transfer to exit.
C19_IsolatedFailures ==
    /\ \A w \in Workers :
          (Terminated(w) /\ WellFormed(retrieval_orders[w]))
             => /\ wstatus[w] = 0
                /\ Len(attempts[w]) = Len(retrieval_orders[w])
    /\ \A w \in Workers :
          (Crashed(w) /\ wpc[w] = "zombie" /\ ppc = "wait")
             => ENABLED Wait(w)
    /\ (ppc = "wait" /\ \A w \in Children : wpc[w] \in {"zombie", "reaped"})
          => /\ wi + Cardinality({ w \in Children : wpc[w] = "zombie" })
                   = RangeLen(num_processes)
             /\ ENABLED ((\E w \in Workers : Wait(w)) \/ Return)
    /\ (BarrierPassed /\ SomeCrashed)
          => /\ Len(outcomes) = num_processes
             /\ \A w \in Children :
                   /\ wpc[w] = "reaped"
                   /\ WellFormed(retrieval_orders[w])
                         => /\ Terminated(w)
                            /\ NewlinesBy(w) = Len(retrieval_orders[w])

\* Child 0 has crashed; child 1 has attempted and logged its item and the
\* parent has collected both and is past its barrier.
C19_Witness ==
    /\ BarrierPassed
    /\ Crashed(0)
    /\ Len(outcomes) = 2
    /\ Len(retrieval_orders[1]) = 1 /\ Len(attempts[1]) = 1
    /\ NewlinesBy(1) = 1

\* C20: with num_processes 0 or negative no child is ever forked and no
\* transfer attempted; a run given both paths ends, if the retrieval order
\* has a line, on the exception of the first partition step, with the
\* package directory made, both files copied and no log opened, and if it has
\* no line, with status 0 and an empty retrieval.log.
C20_NoWorkers ==
    (num_processes <= 0 /\ ~RequiredMissing)
       => /\ \A w \in Workers :
                ~Launched(w) /\ attempts[w] = << >> /\ wcur[w] = NoTransfer
          /\ pids = << >> /\ outcomes = << >>
          /\ ppc \in {"fork", "wait"} => fetch = << >>
          /\ ppc = "exited"
                => IF fetch # << >>
                   THEN /\ pstatus = 1
                        /\ counter = 0
                        /\ Prepared
                        /\ DOMAIN logs = {}
                   ELSE /\ pstatus = 0
                        /\ Prepared
                        /\ DOMAIN logs = {0} /\ logs[0] = << >>

\* A run with a negative num_processes and two lines has ended in
\* partitioning, the package directory prepared.
C20_Witness ==
    /\ num_processes < 0
    /\ Len(fetch) = 2
    /\ ppc = "exited" /\ pstatus = 1
    /\ Prepared

====
